---- MODULE Spec2Model ----
(***************************************************************************)
(* League tables: the standings route handler (GET + fetchLeagueData with  *)
(* its in-memory cache and retry/backoff), the client page's rate-limit    *)
(* countdown, and the qualification-zone classifier.                       *)
(***************************************************************************)
EXTENDS Integers, Sequences, FiniteSets, TLC

VARIABLES
    now,        \* Date.now(), in milliseconds
    cache,      \* route.ts `cache`: slug -> CacheItem, defined on the stored keys only
    reqs,       \* the GET invocations followed: position, retryCount, the upstream
                \* calls made, the backoff delays requested, the response sent
    started,    \* number of GET invocations begun so far
    advances,   \* number of clock jumps taken so far
    page,       \* the LeagueTable component instance (client)
    qual        \* the classifier's input (league positions, position) and result

vars == <<now, cache, reqs, started, advances, page, qual>>

serverVars == <<now, cache, reqs, started, advances>>

-----------------------------------------------------------------------------
(* Bounds of the model *)

MaxRequests == 3
MaxAdvances == 2
MaxFetches == 3
MaxPosition == 2

-----------------------------------------------------------------------------
(* Program constants *)

CACHE_DURATION == 60 * 1000

MAX_RETRY_COUNT == 3

-----------------------------------------------------------------------------
(* Reference data and inputs *)

\* slugs of the configured leagues (leagues.json)
Leagues == {"premier-league", "la-liga"}

\* slugs a request may carry: the configured ones and one that matches none
Slugs == Leagues \cup {"no-such-league"}

\* the model follows two GET invocations at a time
Slots == {1, 2}

\* how far the clock may jump between two steps: just inside the freshness
\* window, and exactly the window
TimeSteps == {CACHE_DURATION - 1, CACHE_DURATION}

\* upstream rows (standings[0].table entries)
EntryX ==
    [position |-> 1, team |-> [name |-> "X"], playedGames |-> 10, won |-> 7,
     draw |-> 2, lost |-> 1, goalsFor |-> 20, goalsAgainst |-> 5,
     goalDifference |-> 15, points |-> 23]

EntryY ==
    [position |-> 2, team |-> [name |-> "Y"], playedGames |-> 10, won |-> 6,
     draw |-> 1, lost |-> 3, goalsFor |-> 14, goalsAgainst |-> 9,
     goalDifference |-> 4, points |-> 19]

UpstreamTables == {<<EntryX, EntryY>>, <<EntryY>>}

\* what one upstream call can come back with
Outcomes ==
    {[kind |-> "ok", table |-> t] : t \in UpstreamTables}
    \cup {[kind |-> "http", status |-> s] : s \in {429, 500}}
    \cup {[kind |-> "malformed"], [kind |-> "network"]}

-----------------------------------------------------------------------------
(* Thrown values *)

RateLimitError ==
    [class |-> "Object",
     props |-> [message |-> "API rate limit exceeded", status |-> 429]]

HttpError(status) ==
    [class |-> "Error",
     props |-> [message |-> "Failed to fetch data: " \o ToString(status)]]

MalformedError ==
    [class |-> "SyntaxError",
     props |-> [message |-> "Unexpected end of JSON input"]]

NetworkError ==
    [class |-> "TypeError", props |-> [message |-> "fetch failed"]]

InstanceOfError(e) == e.class \in {"Error", "TypeError", "SyntaxError"}

HasStatus(e) == "status" \in DOMAIN e.props

Includes(s, sub) ==
    \E i \in 1..(Len(s) - Len(sub) + 1) : SubSeq(s, i, i + Len(sub) - 1) = sub

\* error instanceof Error ? error.message : 'Unknown error'
MessageOf(e) == IF InstanceOfError(e) THEN e.props.message ELSE "Unknown error"

-----------------------------------------------------------------------------
(* fetchLeagueData *)

MapEntry_ComputedDifference(entry) ==
    [position |-> entry.position,
     team     |-> entry.team.name,
     played   |-> entry.playedGames,
     won      |-> entry.won,
     drawn    |-> entry.draw,
     lost     |-> entry.lost,
     gf       |-> entry.goalsFor,
     ga       |-> entry.goalsAgainst,
     gd       |-> entry.goalsFor - entry.goalsAgainst,
     points   |-> entry.points]

MapEntry(entry) ==
    [position |-> entry.position,
     team     |-> entry.team.name,
     played   |-> entry.playedGames,
     won      |-> entry.won,
     drawn    |-> entry.draw,
     lost     |-> entry.lost,
     gf       |-> entry.goalsFor,
     ga       |-> entry.goalsAgainst,
     gd       |-> entry.goalDifference,
     points   |-> entry.points]

MapTable(table) == [i \in 1..Len(table) |-> MapEntry(table[i])]

\* the value the try block throws for a reply that is not a usable table
ThrownFor(o) ==
    CASE o.kind = "network"   -> NetworkError
      [] o.kind = "malformed" -> MalformedError
      [] o.kind = "http"      -> IF o.status = 429
                                 THEN RateLimitError
                                 ELSE HttpError(o.status)

ShouldRetry_OneMore(e, retryCount) ==
    retryCount <= MAX_RETRY_COUNT /\ ~HasStatus(e)

ShouldRetry_IgnoringStatus(e, retryCount) ==
    retryCount < MAX_RETRY_COUNT

ShouldRetry(e, retryCount) ==
    retryCount < MAX_RETRY_COUNT /\ ~HasStatus(e)

BackoffDelay_Linear(retryCount) == (retryCount + 1) * 1000

BackoffDelay(retryCount) == (2 ^ retryCount) * 1000

-----------------------------------------------------------------------------
(* GET *)

Pad3(n) ==
    IF n < 10 THEN "00" \o ToString(n)
    ELSE IF n < 100 THEN "0" \o ToString(n) ELSE ToString(n)

\* new Date(ms).toISOString(), as seconds since the epoch and milliseconds
ToISOString(ms) == ToString(ms \div 1000) \o "." \o Pad3(ms % 1000) \o "Z"

HasEntry(slug) == slug \in DOMAIN cache

\* leagues.find(league => league.slug === leagueSlug) found one
LeagueFound_Any(slug) == TRUE

LeagueFound(slug) == slug \in Leagues

IsFresh_Inverted(slug) ==
    HasEntry(slug) /\ now - cache[slug].timestamp > CACHE_DURATION

IsFresh(slug) ==
    HasEntry(slug) /\ now - cache[slug].timestamp < CACHE_DURATION

NotFoundResponse == [status |-> 404, body |-> [error |-> "League not found"]]

FreshResponse(slug) ==
    [status |-> 200,
     body |-> [data |-> cache[slug].data,
               cached |-> TRUE,
               cachedAt |-> ToISOString(cache[slug].timestamp)]]

SuccessResponse(tableData) ==
    [status |-> 200, body |-> [data |-> tableData, cached |-> FALSE]]

IsRateLimitError(e) ==
    InstanceOfError(e)
    /\ (Includes(e.props.message, "rate limit")
        \/ (HasStatus(e) /\ e.props.status = 429))

CatchResponse_RateLimitFirst(e, slug) ==
    IF HasStatus(e) /\ e.props.status = 429
    THEN [status |-> 429,
          body |-> [error |-> "API rate limit exceeded",
                    rateLimited |-> TRUE,
                    retryAfter |-> 60]]
    ELSE IF HasEntry(slug)
    THEN [status |-> 200,
          body |-> [data |-> cache[slug].data,
                    error |-> MessageOf(e),
                    cached |-> TRUE,
                    stale |-> TRUE,
                    cachedAt |-> ToISOString(cache[slug].timestamp)]]
    ELSE [status |-> 500, body |-> [error |-> MessageOf(e)]]

\* the catch block of GET
CatchResponse(e, slug) ==
    IF HasEntry(slug)
    THEN [status |-> 200,
          body |-> [data |-> cache[slug].data,
                    error |-> MessageOf(e),
                    cached |-> TRUE,
                    stale |-> TRUE,
                    cachedAt |-> ToISOString(cache[slug].timestamp)]]
    ELSE IF IsRateLimitError(e)
    THEN [status |-> 429,
          body |-> [error |-> "API rate limit exceeded",
                    rateLimited |-> TRUE,
                    retryAfter |-> 60]]
    ELSE [status |-> 500, body |-> [error |-> MessageOf(e)]]

NoResponse == [status |-> 0, body |-> [none |-> TRUE]]

NoOutcome == [kind |-> "none", status |-> 0, table |-> <<>>]

\* kind and status of an upstream reply, and the table of a usable one
LastOf(o) ==
    [kind |-> o.kind,
     status |-> IF o.kind = "http" THEN o.status ELSE 0,
     table |-> IF o.kind = "ok" THEN o.table ELSE <<>>]

CachePut_ReplaceAll(slug, tableData) ==
    [s \in {slug} |-> [data |-> tableData, timestamp |-> now]]

CachePut_KeepFresh(slug, tableData) ==
    IF slug \in DOMAIN cache /\ now - cache[slug].timestamp < CACHE_DURATION
    THEN cache
    ELSE [s \in DOMAIN cache \cup {slug} |->
            IF s = slug THEN [data |-> tableData, timestamp |-> now]
            ELSE cache[s]]

\* cache[leagueSlug] = { data: tableData, timestamp: Date.now() }
CachePut(slug, tableData) ==
    [s \in DOMAIN cache \cup {slug} |->
       IF s = slug THEN [data |-> tableData, timestamp |-> now] ELSE cache[s]]

IdleRequest ==
    [pc |-> "idle", slug |-> "", retryCount |-> 0, calls |-> 0,
     delays |-> <<>>, last |-> NoOutcome, resp |-> NoResponse]

\* a request arrives: everything GET does up to its first await
GetStart(r, slug) ==
    /\ reqs[r].pc \in {"idle", "done"}
    /\ \A p \in Slots : p < r => reqs[p].pc \in {"fetching", "backoff"}
    /\ started < MaxRequests
    /\ started' = started + 1
    /\ reqs' = [reqs EXCEPT ![r] =
         IF ~LeagueFound(slug)
         THEN [IdleRequest EXCEPT !.pc = "done", !.slug = slug,
                                  !.resp = NotFoundResponse]
         ELSE IF IsFresh(slug)
         THEN [IdleRequest EXCEPT !.pc = "done", !.slug = slug,
                                  !.resp = FreshResponse(slug)]
         ELSE [IdleRequest EXCEPT !.pc = "fetching", !.slug = slug,
                                  !.calls = 1]]
    /\ UNCHANGED <<now, cache, advances, page, qual>>

\* the pending upstream call of r settles with outcome o; the request runs
\* on to its next await or to its response
UpstreamReply(r, o) ==
    /\ reqs[r].pc = "fetching"
    /\ LET q == reqs[r] IN
       IF o.kind = "ok"
       THEN /\ cache' = CachePut(q.slug, MapTable(o.table))
            /\ reqs' = [reqs EXCEPT ![r] =
                 [q EXCEPT !.pc = "done", !.last = LastOf(o),
                           !.resp = SuccessResponse(MapTable(o.table))]]
       ELSE IF ShouldRetry(ThrownFor(o), q.retryCount)
       THEN /\ reqs' = [reqs EXCEPT ![r] =
                 [q EXCEPT !.pc = "backoff", !.last = LastOf(o),
                           !.delays = Append(@, BackoffDelay(q.retryCount))]]
            /\ UNCHANGED cache
       ELSE /\ reqs' = [reqs EXCEPT ![r] =
                 [q EXCEPT !.pc = "done", !.last = LastOf(o),
                           !.resp = CatchResponse(ThrownFor(o), q.slug)]]
            /\ UNCHANGED cache
    /\ UNCHANGED <<now, started, advances, page, qual>>

\* the backoff timer of r fires and the next attempt issues its upstream
\* call.  The delay handed to setTimeout is recorded in delays; the firing
\* itself is an event of the runtime, and the clock GET samples moves only
\* with Advance.
BackoffDone(r) ==
    /\ reqs[r].pc = "backoff"
    /\ reqs' = [reqs EXCEPT ![r] =
         [@ EXCEPT !.pc = "fetching", !.retryCount = @ + 1, !.calls = @ + 1]]
    /\ UNCHANGED <<now, cache, started, advances, page, qual>>

\* time passes
Advance(d) ==
    /\ advances < MaxAdvances
    /\ advances' = advances + 1
    /\ now' = now + d
    /\ UNCHANGED <<cache, reqs, started, page, qual>>

-----------------------------------------------------------------------------
(* LeagueTable (client page): fetchData, startCountdown, the retry button *)

\* responses of /api/leagues/<slug> as the page sees them; retryAfter 0
\* stands for a body without the field
PageResponses ==
    {[status |-> 429, retryAfter |-> n, stale |-> FALSE] : n \in {0, 2, 60}}
    \cup {[status |-> 200, retryAfter |-> 0, stale |-> b] : b \in BOOLEAN}
    \cup {[status |-> 500, retryAfter |-> 0, stale |-> FALSE]}

\* the component as constructed (the useState initial values), before its
\* mount effect has run
NewPage ==
    [mounted |-> TRUE, effectRun |-> FALSE, loading |-> TRUE,
     error |-> "", isRateLimited |-> FALSE, retryCountdown |-> 0,
     intervals |-> {}, timers |-> 0, pending |-> 0, fetches |-> 0]

\* a state setter: React drops updates of a component that is unmounted
SetState(p, q) == IF p.mounted THEN q ELSE p

\* fetchData up to its await: the three setters and the request sent
FetchDataCall(p) ==
    [SetState(p, [p EXCEPT !.loading = TRUE, !.error = "",
                           !.isRateLimited = FALSE])
     EXCEPT !.pending = p.pending + 1, !.fetches = p.fetches + 1]

\* startCountdown: the countdown value is set and a new interval timer
\* started; the clearing function it returns is dropped by the caller
StartCountdown(p, seconds) ==
    [SetState(p, [p EXCEPT !.retryCountdown = seconds])
     EXCEPT !.intervals = p.intervals \cup {p.timers + 1},
            !.timers = p.timers + 1]

\* fetchData from its await on, for response resp
FetchDataResume(p, resp) ==
    LET seconds == IF resp.retryAfter = 0 THEN 60 ELSE resp.retryAfter
        handled ==
          IF resp.status = 429
          THEN StartCountdown(
                 SetState(p, [p EXCEPT !.isRateLimited = TRUE,
                                       !.retryCountdown = seconds]),
                 seconds)
          ELSE IF resp.status # 200
          THEN SetState(p, [p EXCEPT !.error = "Failed to load data"])
          ELSE SetState(p, [p EXCEPT !.error =
                 IF resp.stale
                 THEN "Warning: Using stale data from cache. Fresh data could not be loaded."
                 ELSE ""])
    IN [SetState(handled, [handled EXCEPT !.loading = FALSE])
        EXCEPT !.pending = p.pending - 1]

\* the mount effect: the initial fetch
InitialFetch ==
    /\ page.mounted /\ ~page.effectRun
    /\ page' = [FetchDataCall(page) EXCEPT !.effectRun = TRUE]
    /\ UNCHANGED <<serverVars, qual>>

\* the button of the rate-limit screen
TryAgainNow ==
    /\ page.mounted /\ page.isRateLimited
    /\ page.fetches < MaxFetches
    /\ page' = FetchDataCall(page)
    /\ UNCHANGED <<serverVars, qual>>

PageResponse(resp) ==
    /\ page.pending > 0
    /\ page' = FetchDataResume(page, resp)
    /\ UNCHANGED <<serverVars, qual>>

\* interval i fires, on the mounted page: the updater given to
\* setRetryCountdown runs on the current value
Tick(i) ==
    /\ i \in page.intervals
    /\ page.mounted
    /\ IF page.retryCountdown <= 1
       THEN /\ page.fetches < MaxFetches
            /\ page' = [FetchDataCall([page EXCEPT !.intervals = @ \ {i}])
                        EXCEPT !.retryCountdown = 0]
       ELSE page' = [page EXCEPT !.retryCountdown = @ - 1]
    /\ UNCHANGED <<serverVars, qual>>

\* interval i fires after the page was left: the update is dropped, and
\* React may or may not still evaluate the updater on the last value; when
\* it does and that value is <= 1 the interval is cleared and fetchData
\* called, and in every other case nothing changes and the timer stays
TickUnmounted(i) ==
    /\ i \in page.intervals
    /\ ~page.mounted
    /\ page.retryCountdown <= 1
    /\ page.fetches < MaxFetches
    /\ page' = FetchDataCall([page EXCEPT !.intervals = @ \ {i}])
    /\ UNCHANGED <<serverVars, qual>>

\* the user leaves the table page: the component unmounts; no effect of
\* the component has a cleanup
NavigateAway ==
    /\ page.mounted
    /\ page' = [page EXCEPT !.mounted = FALSE]
    /\ UNCHANGED <<serverVars, qual>>

-----------------------------------------------------------------------------
(* getQualificationStatus *)

ZoneNames ==
    {"championsLeague", "championsLeagueQualifier", "europaLeague",
     "conferenceLeague", "relegation", "playoff"}

Positions == 1..MaxPosition

\* a league's `positions` with the zone keys `keys`: each key with a list
\* of positions (taken as the set of its members)
PositionConfigs(keys) == [keys -> SUBSET Positions]

\* positions.<zone>?.includes(position)
ZoneIncludes(positions, zone, position) ==
    zone \in DOMAIN positions /\ position \in positions[zone]

\* a league with continental and relegation zones, on a 20-team table
ExampleLeague ==
    [hasPositions |-> TRUE,
     positions |-> [championsLeague |-> {1, 2, 3, 4},
                    europaLeague |-> {5},
                    relegation |-> {18, 19, 20}]]

ExamplePositions == {3, 5, 10, 19}

GetQualificationStatus_QualifierAsChampions(leagueData, position) ==
    IF ~leagueData.hasPositions THEN "none"
    ELSE LET positions == leagueData.positions IN
         IF ZoneIncludes(positions, "championsLeague", position)
         THEN "championsLeague"
         ELSE IF ZoneIncludes(positions, "championsLeagueQualifier", position)
         THEN "championsLeague"
         ELSE IF ZoneIncludes(positions, "europaLeague", position)
         THEN "europaLeague"
         ELSE IF ZoneIncludes(positions, "conferenceLeague", position)
         THEN "conferenceLeague"
         ELSE IF ZoneIncludes(positions, "relegation", position)
         THEN "relegation"
         ELSE IF ZoneIncludes(positions, "playoff", position)
         THEN "playoff"
         ELSE "none"

GetQualificationStatus_PlayoffFirst(leagueData, position) ==
    IF ~leagueData.hasPositions THEN "none"
    ELSE LET positions == leagueData.positions IN
         IF ZoneIncludes(positions, "championsLeague", position)
         THEN "championsLeague"
         ELSE IF ZoneIncludes(positions, "championsLeagueQualifier", position)
         THEN "championsLeagueQualifier"
         ELSE IF ZoneIncludes(positions, "europaLeague", position)
         THEN "europaLeague"
         ELSE IF ZoneIncludes(positions, "conferenceLeague", position)
         THEN "conferenceLeague"
         ELSE IF ZoneIncludes(positions, "playoff", position)
         THEN "playoff"
         ELSE IF ZoneIncludes(positions, "relegation", position)
         THEN "relegation"
         ELSE "none"

GetQualificationStatus(leagueData, position) ==
    IF ~leagueData.hasPositions THEN "none"
    ELSE LET positions == leagueData.positions IN
         IF ZoneIncludes(positions, "championsLeague", position)
         THEN "championsLeague"
         ELSE IF ZoneIncludes(positions, "championsLeagueQualifier", position)
         THEN "championsLeagueQualifier"
         ELSE IF ZoneIncludes(positions, "europaLeague", position)
         THEN "europaLeague"
         ELSE IF ZoneIncludes(positions, "conferenceLeague", position)
         THEN "conferenceLeague"
         ELSE IF ZoneIncludes(positions, "relegation", position)
         THEN "relegation"
         ELSE IF ZoneIncludes(positions, "playoff", position)
         THEN "playoff"
         ELSE "none"

\* a row of the table is rendered: its position is classified
Classify ==
    /\ ~qual.classified
    /\ qual' = [qual EXCEPT !.classified = TRUE,
                  !.status = GetQualificationStatus(qual.leagueData,
                                                    qual.position)]
    /\ UNCHANGED <<serverVars, page>>

-----------------------------------------------------------------------------

NoPage == [NewPage EXCEPT !.mounted = FALSE]

NoQual ==
    [leagueData |-> [hasPositions |-> FALSE, positions |-> [k \in {} |-> {}]],
     position |-> 1, classified |-> FALSE, status |-> "none"]

Init ==
    /\ now = 0
    /\ cache = [s \in {} |-> 0]
    /\ reqs = [r \in Slots |-> IdleRequest]
    /\ started = 0
    /\ advances = 0
    /\ page = NoPage
    /\ qual = NoQual

Next ==
    \/ \E r \in Slots, slug \in Slugs : GetStart(r, slug)
    \/ \E r \in Slots, o \in Outcomes : UpstreamReply(r, o)
    \/ \E r \in Slots : BackoffDone(r)
    \/ \E d \in TimeSteps : Advance(d)

Spec == Init /\ [][Next]_vars

\* the route handler when every upstream call returns or fails and every
\* backoff timer fires
Fairness ==
    \A r \in Slots :
        /\ WF_vars(\E o \in Outcomes : UpstreamReply(r, o))
        /\ WF_vars(BackoffDone(r))

NextLive ==
    \/ \E r \in Slots, slug \in Slugs : GetStart(r, slug)
    \/ \E r \in Slots, o \in Outcomes : UpstreamReply(r, o)
    \/ \E r \in Slots : BackoffDone(r)

SpecLive == Init /\ [][NextLive]_vars /\ Fairness

\* the client page on its own, fed the responses of the route
InitClient ==
    /\ now = 0
    /\ cache = [s \in {} |-> 0]
    /\ reqs = [r \in Slots |-> IdleRequest]
    /\ started = 0
    /\ advances = 0
    /\ page = NewPage
    /\ qual = NoQual

NextClient ==
    \/ InitialFetch
    \/ TryAgainNow
    \/ \E resp \in PageResponses : PageResponse(resp)
    \/ \E i \in 1..MaxFetches : Tick(i)
    \/ \E i \in 1..MaxFetches : TickUnmounted(i)
    \/ NavigateAway

SpecClient == InitClient /\ [][NextClient]_vars

\* the classifier applied to every league configuration (no `positions`,
\* or any of the zone keys with any lists) and position
InitQual ==
    /\ now = 0
    /\ cache = [s \in {} |-> 0]
    /\ reqs = [r \in Slots |-> IdleRequest]
    /\ started = 0
    /\ advances = 0
    /\ page = NoPage
    /\ \/ \E keys \in SUBSET ZoneNames, h \in BOOLEAN, p \in Positions :
            /\ h \/ keys = {}
            /\ \E c \in PositionConfigs(keys) :
                 qual = [leagueData |-> [hasPositions |-> h, positions |-> c],
                         position |-> p, classified |-> FALSE,
                         status |-> "none"]
       \/ \E p \in ExamplePositions :
            qual = [leagueData |-> ExampleLeague, position |-> p,
                    classified |-> FALSE, status |-> "none"]

SpecQual == InitQual /\ [][Classify]_vars

-----------------------------------------------------------------------------
(* Properties of the route handler *)

InFlight(r) == reqs[r].pc \in {"fetching", "backoff"}

\* this step is the arrival of a GET for slug s, followed in slot r
Arrives(r, s) ==
    /\ started' = started + 1
    /\ ~InFlight(r)
    /\ \A p \in Slots : p < r => InFlight(p)
    /\ reqs'[r].slug = s

\* this step ends the fetch of request r in failure
FetchFails(r) ==
    /\ reqs[r].pc = "fetching"
    /\ reqs'[r].pc = "done"
    /\ reqs'[r].last.kind # "ok"

\* this step ends the fetch of request r in success
FetchSucceeds(r) ==
    /\ reqs[r].pc = "fetching"
    /\ reqs'[r].pc = "done"
    /\ reqs'[r].last.kind = "ok"

Is429(o) == o.kind = "http" /\ o.status = 429

IsStaleBody(b) == DOMAIN b = {"data", "error", "cached", "stale", "cachedAt"}

IsFreshBody(b) == DOMAIN b = {"data", "cached", "cachedAt"}

\* C1: a GET for a known league whose cache entry is younger than the 60 s
\* freshness window answers with exactly that entry's rows, cached=true and
\* cachedAt the entry's timestamp, makes no upstream call and leaves the
\* cache as it is.
C1_FreshHitServedFromCache ==
    [][\A r \in Slots, s \in Leagues :
        (/\ Arrives(r, s)
         /\ s \in DOMAIN cache
         /\ now - cache[s].timestamp < 60 * 1000)
        => /\ reqs'[r].pc = "done"
           /\ reqs'[r].calls = 0
           /\ reqs'[r].resp =
                [status |-> 200,
                 body |-> [data |-> cache[s].data,
                           cached |-> TRUE,
                           cachedAt |-> ToISOString(cache[s].timestamp)]]
           /\ cache' = cache]_vars

\* a request was answered from an entry 59.999 s old without any upstream call
C1_Witness ==
    \E r \in Slots :
        /\ reqs[r].pc = "done"
        /\ IsFreshBody(reqs[r].resp.body)
        /\ reqs[r].calls = 0
        /\ reqs[r].slug \in DOMAIN cache
        /\ now - cache[reqs[r].slug].timestamp = CACHE_DURATION - 1
        /\ reqs[r].resp.body.data = cache[reqs[r].slug].data

\* C2: when the upstream answers 429 and the cache holds no entry for the
\* league (so the response is no stale fallback), GET answers HTTP 429 with
\* rateLimited=true and retryAfter=60.
C2_RateLimitSurfaced ==
    \A r \in Slots :
        (/\ reqs[r].pc = "done"
         /\ Is429(reqs[r].last)
         /\ ~IsStaleBody(reqs[r].resp.body))
        => /\ reqs[r].resp.status = 429
           /\ DOMAIN reqs[r].resp.body = {"error", "rateLimited", "retryAfter"}
           /\ reqs[r].resp.body.rateLimited = TRUE
           /\ reqs[r].resp.body.retryAfter = 60

\* C3: an upstream 429 is never retried: once a request has received it, on
\* whichever attempt, the request is finished, with no upstream call and no
\* backoff delay after it.
C3_RateLimitNotRetried ==
    \A r \in Slots :
        Is429(reqs[r].last)
        => /\ reqs[r].pc = "done"
           /\ reqs[r].calls = reqs[r].retryCount + 1
           /\ Len(reqs[r].delays) = reqs[r].retryCount

\* a 429 that came on a later attempt, after a retried failure
C3_Witness ==
    \E r \in Slots :
        /\ Is429(reqs[r].last)
        /\ reqs[r].pc = "done"
        /\ reqs[r].calls = 2
        /\ reqs[r].delays = <<1000>>

\* C4: a request whose attempts fail in transport makes exactly
\* MAX_RETRY_COUNT + 1 = 4 upstream calls: the delay requested after failed
\* attempt n is 2^n seconds (1 s, 2 s, 4 s), a transport failure before the
\* fourth call is always followed by a backoff, none follows the fourth,
\* and the request then ends with that last failure raised.
C4_TransientRetriedWithBackoff ==
    \A r \in Slots :
        LET q == reqs[r] IN
        /\ q.calls <= 3 + 1
        /\ \A i \in DOMAIN q.delays :
              q.delays[i] = CASE i = 1 -> 1000 [] i = 2 -> 2000 [] i = 3 -> 4000
        /\ q.pc = "backoff" => Len(q.delays) = q.calls
        /\ q.pc = "fetching" => Len(q.delays) = q.calls - 1
        /\ (q.last.kind = "network" /\ q.pc = "done")
              => /\ q.calls = 3 + 1
                 /\ q.delays = <<1000, 2000, 4000>>
                 /\ q.resp.body.error = "fetch failed"

\* a request that gave up after its fourth transport failure
C4_Witness ==
    \E r \in Slots :
        /\ reqs[r].pc = "done"
        /\ reqs[r].last.kind = "network"
        /\ reqs[r].calls = 4
        /\ reqs[r].delays = <<1000, 2000, 4000>>
        /\ reqs[r].resp = [status |-> 500, body |-> [error |-> "fetch failed"]]

IsNonTransient(o) ==
    \/ o.kind = "malformed"
    \/ (o.kind = "http" /\ o.status # 429)

\* C5: a non-success status other than 429, or a malformed body, is not
\* retried: the request that received it is finished, with no upstream call
\* and no backoff delay after it.
C5_OnlyTransientRetried ==
    \A r \in Slots :
        IsNonTransient(reqs[r].last)
        => /\ reqs[r].pc = "done"
           /\ reqs[r].calls = reqs[r].retryCount + 1
           /\ Len(reqs[r].delays) = reqs[r].retryCount

\* C6: when the fetch of a request fails, whatever the failure, and the
\* cache holds an entry for the league, GET answers 200 with that entry's
\* rows, cached=true, stale=true and cachedAt the entry's timestamp.
C6_StaleFallback ==
    [][\A r \in Slots :
        (FetchFails(r) /\ reqs[r].slug \in DOMAIN cache)
        => LET b == reqs'[r].resp.body
               entry == cache[reqs[r].slug]
           IN /\ reqs'[r].resp.status = 200
              /\ IsStaleBody(b)
              /\ b.data = entry.data
              /\ b.cached = TRUE
              /\ b.stale = TRUE
              /\ b.cachedAt = ToISOString(entry.timestamp)]_vars

\* a stale fallback after an upstream 429
C6_Witness ==
    \E r \in Slots :
        /\ reqs[r].pc = "done"
        /\ Is429(reqs[r].last)
        /\ reqs[r].resp.status = 200
        /\ IsStaleBody(reqs[r].resp.body)
        /\ reqs[r].resp.body.data = cache[reqs[r].slug].data

\* C7: in a stale-fallback response the error field is the message of the
\* failure that caused the fallback.
C7_StaleCarriesFailureMessage ==
    \A r \in Slots :
        (/\ reqs[r].pc = "done"
         /\ IsStaleBody(reqs[r].resp.body)
         /\ reqs[r].last.kind \in {"http", "network"})
        => reqs[r].resp.body.error =
             CASE Is429(reqs[r].last) -> "API rate limit exceeded"
               [] reqs[r].last.kind = "http" /\ ~Is429(reqs[r].last) ->
                    "Failed to fetch data: " \o ToString(reqs[r].last.status)
               [] reqs[r].last.kind = "network" -> "fetch failed"

\* C8: a GET whose slug matches no configured league answers 404
\* 'League not found' at once, whatever the cache holds: no upstream call,
\* and the cache is left as it is.
C8_UnknownLeagueNotFound ==
    [][\A r \in Slots, s \in Slugs \ {"premier-league", "la-liga"} :
        Arrives(r, s)
        => /\ reqs'[r].pc = "done"
           /\ reqs'[r].calls = 0
           /\ reqs'[r].resp =
                [status |-> 404, body |-> [error |-> "League not found"]]
           /\ cache' = cache]_vars

\* a 404 given while the cache held entries
C8_Witness ==
    \E r \in Slots :
        /\ reqs[r].pc = "done"
        /\ reqs[r].slug \notin Leagues
        /\ reqs[r].resp.status = 404
        /\ reqs[r].calls = 0
        /\ DOMAIN cache # {}

-----------------------------------------------------------------------------
(* Properties of the client page *)

\* C9: the rate-limit countdown is cancelled by 'Try again now' and by
\* leaving the page: a countdown timer is active only while the mounted page
\* shows the rate-limit screen, and then it is the only one.
C9_CountdownCancelled ==
    page.intervals # {}
    => /\ page.mounted
       /\ page.isRateLimited
       /\ Cardinality(page.intervals) = 1

-----------------------------------------------------------------------------
(* Properties of the classifier *)

\* the first zone of order (a sequence of zone names) that lists position
RECURSIVE FirstZone(_, _, _)
FirstZone(order, positions, position) ==
    IF order = <<>> THEN "none"
    ELSE IF Head(order) \in DOMAIN positions
            /\ position \in positions[Head(order)]
    THEN Head(order)
    ELSE FirstZone(Tail(order), positions, position)

\* C10 (as stated): the zones are checked in the order championsLeague,
\* championsLeagueQualifier, europaLeague, conferenceLeague, playoff,
\* relegation, so a position in both playoff and relegation is 'playoff'.
C10_PlayoffBeforeRelegation ==
    (qual.classified /\ qual.leagueData.hasPositions)
    => qual.status =
         FirstZone(<<"championsLeague", "championsLeagueQualifier",
                     "europaLeague", "conferenceLeague", "playoff",
                     "relegation">>,
                   qual.leagueData.positions, qual.position)

\* C10 (amended): the zones are checked in the order championsLeague,
\* championsLeagueQualifier, europaLeague, conferenceLeague, relegation,
\* playoff: a position listed in several zones gets the first of them in
\* that order, so a position in both playoff and relegation is 'relegation'.
C10_RelegationBeforePlayoff ==
    (qual.classified /\ qual.leagueData.hasPositions)
    => qual.status =
         FirstZone(<<"championsLeague", "championsLeagueQualifier",
                     "europaLeague", "conferenceLeague", "relegation",
                     "playoff">>,
                   qual.leagueData.positions, qual.position)

\* a classified position that is in both the playoff and the relegation
\* list and in no continental one
C10_Witness ==
    /\ qual.classified
    /\ qual.leagueData.hasPositions
    /\ DOMAIN qual.leagueData.positions = {"playoff", "relegation", "europaLeague"}
    /\ qual.position \in qual.leagueData.positions["playoff"]
    /\ qual.position \in qual.leagueData.positions["relegation"]
    /\ qual.position \notin qual.leagueData.positions["europaLeague"]
    /\ qual.status = "relegation"

\* the zone sets of a league are pairwise disjoint
ZonesDisjoint(positions) ==
    \A y, z \in DOMAIN positions :
        y # z => positions[y] \cap positions[z] = {}

\* C11: for a league whose zone sets are pairwise disjoint the classifier
\* returns, for every position, the tag of the one set that contains it,
\* and 'none' when no set contains it or the league has no positions; in
\* the example league 3 is championsLeague, 5 europaLeague, 10 none and 19
\* relegation.
C11_DisjointZonesTagged ==
    LET l == qual.leagueData
        p == qual.position
    IN (qual.classified /\ ZonesDisjoint(l.positions))
       => /\ \A z \in DOMAIN l.positions :
               (l.hasPositions /\ p \in l.positions[z]) => qual.status = z
          /\ (\A z \in DOMAIN l.positions : p \notin l.positions[z])
               => qual.status = "none"
          /\ (~l.hasPositions) => qual.status = "none"
          /\ (/\ l = [hasPositions |-> TRUE,
                       positions |-> [championsLeague |-> {1, 2, 3, 4},
                                      europaLeague |-> {5},
                                      relegation |-> {18, 19, 20}]]
              /\ p \in {3, 5, 10, 19})
               => qual.status = CASE p = 3 -> "championsLeague"
                                  [] p = 5 -> "europaLeague"
                                  [] p = 10 -> "none"
                                  [] p = 19 -> "relegation"

\* position 19 of the example league, classified as relegation
C11_Witness ==
    /\ qual.classified
    /\ qual.leagueData.hasPositions
    /\ DOMAIN qual.leagueData.positions =
         {"championsLeague", "europaLeague", "relegation"}
    /\ qual.leagueData.positions["relegation"] = {18, 19, 20}
    /\ qual.position = 19
    /\ qual.status = "relegation"

-----------------------------------------------------------------------------
(* Further properties of the route handler *)

\* row is entry with its fields renamed and nothing else
IsRenamed(row, entry) ==
    /\ DOMAIN row = {"position", "team", "played", "won", "drawn", "lost",
                     "gf", "ga", "gd", "points"}
    /\ row.position = entry.position
    /\ row.team = entry.team.name
    /\ row.played = entry.playedGames
    /\ row.won = entry.won
    /\ row.drawn = entry.draw
    /\ row.lost = entry.lost
    /\ row.gf = entry.goalsFor
    /\ row.ga = entry.goalsAgainst
    /\ row.gd = entry.goalDifference
    /\ row.points = entry.points

\* C12: on a successful upstream response the rows returned, and the rows
\* cached, are the upstream rows in the same order and number, each with
\* its fields renamed only: gd is the upstream goalDifference even where
\* that is not gf - ga.
C12_RowsRenamedOnly ==
    [][\A r \in Slots :
        FetchSucceeds(r)
        => LET table == reqs'[r].last.table
               data == reqs'[r].resp.body.data
           IN /\ reqs'[r].resp.status = 200
              /\ DOMAIN reqs'[r].resp.body = {"data", "cached"}
              /\ reqs'[r].resp.body.cached = FALSE
              /\ Len(data) = Len(table)
              /\ \A i \in 1..Len(table) : IsRenamed(data[i], table[i])
              /\ cache'[reqs[r].slug].data = data]_vars

\* a success whose upstream row has goalDifference 4 with goals 14:9
C12_Witness ==
    \E r \in Slots :
        /\ reqs[r].pc = "done"
        /\ reqs[r].last.kind = "ok"
        /\ Len(reqs[r].last.table) = 2
        /\ reqs[r].last.table[2].goalDifference = 4
        /\ reqs[r].last.table[2].goalsFor - reqs[r].last.table[2].goalsAgainst = 5
        /\ reqs[r].resp.body.data[2].gd = 4
        /\ reqs[r].resp.body.data[1].team = "X"
        /\ cache[reqs[r].slug].data = reqs[r].resp.body.data

\* C13: fetches are not deduplicated and the cache is last-writer-wins: a
\* GET that finds no fresh entry issues its own upstream call whatever other
\* requests are in flight, and every successful fetch overwrites the entry
\* with its own rows and the time of its write, whatever the entry held.
C13_LastWriterWins ==
    [][\A r \in Slots :
        /\ \A s \in Leagues :
             (/\ Arrives(r, s)
              /\ ~(s \in DOMAIN cache
                    /\ now - cache[s].timestamp < 60 * 1000))
             => (reqs'[r].pc = "fetching" /\ reqs'[r].calls = 1)
        /\ FetchSucceeds(r)
             => cache'[reqs[r].slug] =
                  [data |-> reqs'[r].resp.body.data, timestamp |-> now]]_vars

\* two concurrent GETs for one league, both fetched with success and with
\* different rows: the entry is that of the request that arrived first and
\* wrote last, a minute after the other
C13_Witness ==
    /\ started = 2
    /\ \A r \in Slots : reqs[r].pc = "done" /\ reqs[r].last.kind = "ok"
                         /\ reqs[r].calls = 1
    /\ reqs[1].slug = reqs[2].slug
    /\ reqs[1].resp.body.data # reqs[2].resp.body.data
    /\ cache[reqs[1].slug] =
         [data |-> reqs[1].resp.body.data, timestamp |-> CACHE_DURATION]

\* C14: an entry is stale, and a GET for its league calls the upstream,
\* exactly when the entry is older than the 60 s window (or there is none):
\* an entry aged exactly 60 s is still served as fresh, with no upstream
\* call.
C14_StaleOnlyWhenOlder ==
    [][\A r \in Slots, s \in Leagues :
        Arrives(r, s)
        => IF s \in DOMAIN cache /\ now - cache[s].timestamp <= 60 * 1000
           THEN /\ reqs'[r].pc = "done"
                /\ reqs'[r].calls = 0
                /\ IsFreshBody(reqs'[r].resp.body)
           ELSE /\ reqs'[r].pc = "fetching"
                /\ reqs'[r].calls = 1]_vars

\* C15: the cache changes only through a successful fetch: a step in which
\* no fetch succeeds (a fresh hit, a 404, a failure, a retry) leaves every
\* entry as it is; a successful fetch changes only the entry of the league
\* requested; no entry is ever removed; and only slugs of configured
\* leagues are keys.
C15_CacheFrame ==
    [][/\ DOMAIN cache \subseteq DOMAIN cache'
       /\ DOMAIN cache' \subseteq {"premier-league", "la-liga"}
       /\ (\A r \in Slots : ~FetchSucceeds(r)) => cache' = cache
       /\ \A r \in Slots :
            FetchSucceeds(r)
            => \A s \in DOMAIN cache :
                 s # reqs[r].slug => cache'[s] = cache[s]]_vars

\* both leagues cached, one entry a minute or so newer than the other,
\* and a request answered with a failure fallback since
C15_Witness ==
    /\ DOMAIN cache = {"premier-league", "la-liga"}
    /\ cache["la-liga"].timestamp = 0
    /\ cache["premier-league"].timestamp > 0
    /\ \E r \in Slots :
         /\ reqs[r].pc = "done"
         /\ reqs[r].last.kind = "network"
         /\ IsStaleBody(reqs[r].resp.body)

\* C16: a response carrying stale=true serves an expired entry: when the
\* response is built, the entry it returns is at least 60 s old.
C16_StaleMeansExpired ==
    [][\A r \in Slots :
        (/\ reqs'[r].pc = "done"
         /\ reqs'[r] # reqs[r]
         /\ IsStaleBody(reqs'[r].resp.body))
        => /\ reqs[r].slug \in DOMAIN cache
           /\ now - cache[reqs[r].slug].timestamp >= 60 * 1000]_vars

\* C17: whatever the upstream outcomes, a GET makes at most
\* MAX_RETRY_COUNT + 1 = 4 upstream calls, has sent no response while it is
\* in flight, and - every upstream call returning or failing and every
\* backoff timer firing - eventually answers, with one response.
C17_BoundedCallsAndAnswer ==
    /\ [](\A r \in Slots :
            /\ reqs[r].calls <= 3 + 1
            /\ InFlight(r) => reqs[r].resp = NoResponse
            /\ reqs[r].pc = "done" => reqs[r].resp.status \in {200, 404, 429, 500})
    /\ \A r \in Slots : InFlight(r) ~> (reqs[r].pc = "done")

\* a request answered after four upstream calls, the last one a success
C17_Witness ==
    \E r \in Slots :
        /\ reqs[r].pc = "done"
        /\ reqs[r].calls = 4
        /\ reqs[r].last.kind = "ok"
        /\ reqs[r].resp.status = 200

====
